---- MODULE Spec2Model ----
(***************************************************************************)
(* A model of LinkedInProfileScraper (src/src/index.ts): the construction  *)
(* of the scraper, the browser and page lifecycle of setup, createPage,    *)
(* close, checkIfLoggedIn and run, the identifier-to-timestamp decoder and *)
(* the watermark filter of getPosts and getComments.                       *)
(*                                                                         *)
(* Identifiers are decimal strings, modelled as sequences of digits, most  *)
(* significant first: they exceed the integers TLC computes with, and the  *)
(* code converts them (BigInt, toString(2), parseInt, the Number           *)
(* conversion of the > operator), so every conversion is computed on the   *)
(* digits.                                                                 *)
(***************************************************************************)
EXTENDS Integers, Sequences, FiniteSets, TLC

(***************************************************************************)
(* Decimal and binary digit strings                                        *)
(***************************************************************************)

\* A digit string without its leading zeros; the empty string becomes "0".
RECURSIVE StripZeros(_)
StripZeros(d) ==
  IF Len(d) <= 1 THEN (IF Len(d) = 0 THEN <<0>> ELSE d)
  ELSE IF d[1] = 0 THEN StripZeros(Tail(d)) ELSE d

\* Arithmetic on digit strings goes ChunkBits binary digits at a time, which
\* keeps every intermediate value within TLC's integers.
ChunkBits == 16

\* The digits of floor((carry * 10^Len(d) + d) / m), by long division.
RECURSIVE DivDigits(_, _, _)
DivDigits(d, m, carry) ==
  IF d = <<>> THEN <<>>
  ELSE LET cur == carry * 10 + d[1]
       IN  <<cur \div m>> \o DivDigits(Tail(d), m, cur % m)

\* The remainder of the same division.
RECURSIVE ModDigits(_, _, _)
ModDigits(d, m, carry) ==
  IF d = <<>> THEN carry
  ELSE ModDigits(Tail(d), m, (carry * 10 + d[1]) % m)

DecDiv(d, m) == StripZeros(DivDigits(d, m, 0))

DecMod(d, m) == ModDigits(d, m, 0)

DecIsZero(d) == d = <<0>>

\* The digits of d * m + carry, by long multiplication from the right.
RECURSIVE MulDigits(_, _, _)
MulDigits(d, m, carry) ==
  IF d = <<>> THEN (IF carry = 0 THEN <<>> ELSE MulDigits(<<0>>, m, carry))
  ELSE LET n   == Len(d)
           cur == d[n] * m + carry
       IN  Append(MulDigits(SubSeq(d, 1, n - 1), m, cur \div 10), cur % 10)

DecMulAdd(d, m, add) == StripZeros(MulDigits(d, m, add))

\* a > b on decimal strings without leading zeros.
RECURSIVE LexGreater(_, _)
LexGreater(a, b) ==
  IF a = <<>> THEN FALSE
  ELSE IF a[1] # b[1] THEN a[1] > b[1]
  ELSE LexGreater(Tail(a), Tail(b))

DecGreater(a, b) ==
  \/ Len(a) > Len(b)
  \/ Len(a) = Len(b) /\ LexGreater(a, b)

\* The k low binary digits of a small natural number, most significant first.
LowBits(v, k) == [i \in 1..k |-> (v \div 2^(k - i)) % 2]

\* The natural number a short binary string denotes.
RECURSIVE SmallValue(_)
SmallValue(bits) ==
  IF bits = <<>> THEN 0
  ELSE LET n == Len(bits)
       IN  2 * SmallValue(SubSeq(bits, 1, n - 1)) + bits[n]

\* BigInt(id).toString(2): the binary digits of a decimal string.
RECURSIVE BinaryDigits(_)
BinaryDigits(d) ==
  IF DecIsZero(d) THEN <<>>
  ELSE BinaryDigits(DecDiv(d, 2^ChunkBits))
         \o LowBits(DecMod(d, 2^ChunkBits), ChunkBits)

BigIntToString2(d) == StripZeros(BinaryDigits(d))

\* The exact integer a binary string denotes, as a decimal string.
RECURSIVE BinaryValue(_)
BinaryValue(bits) ==
  LET n == Len(bits)
  IN  IF n <= ChunkBits THEN DecMulAdd(<<0>>, 1, SmallValue(bits))
      ELSE DecMulAdd(BinaryValue(SubSeq(bits, 1, n - ChunkBits)), 2^ChunkBits,
                     SmallValue(SubSeq(bits, n - ChunkBits + 1, n)))

\* floor(d / 2^k) of a decimal string.
RECURSIVE DecShiftRight(_, _)
DecShiftRight(d, k) ==
  IF k <= 0 THEN d
  ELSE LET s == IF k < ChunkBits THEN k ELSE ChunkBits
       IN  DecShiftRight(DecDiv(d, 2^s), k - s)

\* String.prototype.slice(from, to) for 0 <= from <= to.
Slice(s, from, to) ==
  SubSeq(s, from + 1, IF to < Len(s) THEN to ELSE Len(s))

(***************************************************************************)
(* JavaScript numbers: IEEE 754 doubles                                    *)
(***************************************************************************)

\* The significand of a double holds 53 binary digits.
MantissaBits == 53

RECURSIVE Zeros(_)
Zeros(n) == IF n <= 0 THEN <<>> ELSE <<0>> \o Zeros(n - 1)

\* bits + 1 on a binary string (one digit longer when all digits are 1).
RECURSIVE BinaryIncrement(_)
BinaryIncrement(bits) ==
  IF bits = <<>> THEN <<1>>
  ELSE LET n == Len(bits)
       IN  IF bits[n] = 0 THEN Append(SubSeq(bits, 1, n - 1), 1)
           ELSE Append(BinaryIncrement(SubSeq(bits, 1, n - 1)), 0)

\* The double nearest to the integer a binary string (no leading zeros)
\* denotes, ties to even, as a binary string.
RoundToDouble(bits) ==
  IF Len(bits) <= MantissaBits THEN bits
  ELSE LET head == SubSeq(bits, 1, MantissaBits)
           rest == SubSeq(bits, MantissaBits + 1, Len(bits))
           more == \E i \in 2..Len(rest) : rest[i] = 1
           up   == rest[1] = 1 /\ (more \/ head[MantissaBits] = 1)
       IN  (IF up THEN BinaryIncrement(head) ELSE head) \o Zeros(Len(rest))

\* The Number a string of binary digits denotes (parseInt(s, 2)), and the
\* Number a decimal string converts to (ToNumber of the > operator), both as
\* the decimal string of the double's exact value.
ParseInt2(bits) == BinaryValue(RoundToDouble(StripZeros(bits)))

StringToNumber(d) == BinaryValue(RoundToDouble(BigIntToString2(d)))

(***************************************************************************)
(* JavaScript values of the feed pipeline                                  *)
(***************************************************************************)

\* A value is tagged with its type; v holds the digits of a numeric string
\* or the exact value of a Number.
Str(d) == [t |-> "string", v |-> d]

Num(d) == [t |-> "number", v |-> d]

Null == [t |-> "null", v |-> <<>>]

Undefined == [t |-> "undefined", v |-> <<>>]

\* ToBoolean, as the || operator applies it.
Truthy(x) ==
  CASE x.t = "string" -> x.v # <<>>
    [] x.t = "number" -> x.v # <<0>>
    [] OTHER          -> FALSE

OrElse(x, y) == IF Truthy(x) THEN x ELSE y

\* ToNumber of a numeric string, a Number or null.
ToNumber(x) ==
  CASE x.t = "string" -> StringToNumber(x.v)
    [] x.t = "number" -> x.v
    [] OTHER          -> <<0>>

\* a > b where b is a Number: a is converted to a Number first; undefined
\* converts to NaN, which is greater than nothing.
JsGreater(a, b) ==
  /\ a.t # "undefined"
  /\ b.t # "undefined"
  /\ DecGreater(ToNumber(a), ToNumber(b))

(***************************************************************************)
(* The identifier-to-timestamp decoder                                     *)
(***************************************************************************)

\* The number of leading binary digits that hold the creation time.
First41Chars == 41

\* extractUnixTimestamp(postId)
MutExtractShortPrefix(postId) ==
  ParseInt2(Slice(BigIntToString2(postId), 0, First41Chars - 1))

MutExtractLowBits(postId) ==
  LET asBinary == BigIntToString2(postId)
      n        == Len(asBinary)
  IN  ParseInt2(SubSeq(asBinary, IF n > First41Chars THEN n - First41Chars + 1 ELSE 1, n))

extractUnixTimestamp(postId) ==
  ParseInt2(Slice(BigIntToString2(postId), 0, First41Chars))

\* getDate(postId); humanDateFormat renders unixTimestamp and is kept as the
\* instant it renders.
getDate(postId) ==
  [unixTimestamp |-> extractUnixTimestamp(postId),
   humanDateFormat |-> <<extractUnixTimestamp(postId), "UTC">>]

(***************************************************************************)
(* getPosts and getComments: extraction of the feed items and the          *)
(* watermark filter                                                        *)
(***************************************************************************)

\* A post element has no [data-urn] descendant, or one whose urn splits at
\* ":" into <<"urn", "li", "activity", id>>.
NoUrn == <<>>

ActivityUrn(id) == <<"urn", "li", "activity", id>>

\* The record the page script of getPosts builds for one post element.
postData(post) ==
  IF post.urn # NoUrn
    THEN [postId          |-> Str(post.urn[4]),
          postText        |-> post.text,
          postDateDetails |-> <<extractUnixTimestamp(post.urn[4]), "UTC">>]
    ELSE [postId          |-> Null,
          postText        |-> post.text,
          postDateDetails |-> <<>>]

\* rawUserPostData: one record per post element, in document order.
rawUserPostData(posts) == [i \in 1..Len(posts) |-> postData(posts[i])]

\* A comment element has no data-id attribute, or one that names the parent
\* post and the comment: urn:li:comment:(activity:<post>,<comment>).
NoDataId == <<>>

CommentUrn(post, comment) == <<post, comment>>

\* The record the page script of getComments builds for one comment element;
\* an identifier that is not found falls back to the Number 0.
commentData(comment) ==
  LET commentId     == IF comment.dataId # NoDataId
                         THEN OrElse(Str(comment.dataId[2]), Num(<<0>>))
                         ELSE Num(<<0>>)
      commentPostId == IF comment.dataId # NoDataId
                         THEN OrElse(Str(comment.dataId[1]), Num(<<0>>))
                         ELSE Num(<<0>>)
  IN  [commentId          |-> commentId,
       commentPostId      |-> commentPostId,
       commentText        |-> comment.text,
       commentDateDetails |->
         <<extractUnixTimestamp(IF commentId.t = "string" THEN commentId.v
                                ELSE <<0>>), "UTC">>]

\* profile_owner_comments: the comments of the profile owner, in document
\* order, skipping a comment whose text an earlier kept comment has.
RECURSIVE profile_owner_comments(_, _, _)
profile_owner_comments(comments, profile_owner, kept) ==
  IF comments = <<>> THEN kept
  ELSE LET c    == Head(comments)
           seen == \E i \in 1..Len(kept) : kept[i].commentText = c.text
       IN  profile_owner_comments(
             Tail(comments), profile_owner,
             IF c.author = profile_owner /\ ~seen
               THEN Append(kept, commentData(c)) ELSE kept)

rawComment(comments, profile_owner) ==
  profile_owner_comments(comments, profile_owner, <<>>)

\* BigInt(postId) throws when the urn has no fourth part.
postsScriptThrows(posts) ==
  \E i \in 1..Len(posts) : posts[i].urn # NoUrn /\ Len(posts[i].urn) < 4

\* A comment element without the element of the author's name: the script
\* throws when it reads the name.
NoNameElement == "(no name element)"

\* A script that reads the first comment before its loop.
MutCommentsScriptReadsFirst(comments) ==
  \/ comments = <<>>
  \/ \E i \in 1..Len(comments) : comments[i].author = NoNameElement

commentsScriptThrows(comments) ==
  \E i \in 1..Len(comments) : comments[i].author = NoNameElement

\* The watermark test of one post and of one comment.
postIsNew(post, lastPostID) == JsGreater(post.postId, lastPostID)

commentIsNew(comment, lastCommentID) ==
  JsGreater(comment.commentId, lastCommentID)

\* filteredUserPostData and filteredUserCommentData; the object the methods
\* return spreads the filtered array, so it maps the indices to the items.
filteredUserPostData(raw, lastPostID) ==
  SelectSeq(raw, LAMBDA post : postIsNew(post, lastPostID))

filteredUserCommentData(raw, lastCommentID) ==
  SelectSeq(raw, LAMBDA comment : commentIsNew(comment, lastCommentID))

\* The watermarks run reads from its options argument.
NoMemory == [lastPostID |-> Undefined, lastCommentID |-> Undefined]

lastPostIDOf(options) == OrElse(options.lastPostID, Num(<<0>>))

lastCommentIDOf(options) == OrElse(options.lastCommentID, Num(<<0>>))

(***************************************************************************)
(* autoScroll: the loop that scrolls a page to its end                     *)
(***************************************************************************)

\* var distance = 500, and the delay of setInterval in milliseconds.
distance == 500

ScrollInterval == 100

\* A loop that stops only when it is exactly at the end of the page.
MutScrolledExactlyToEnd(totalHeight, scrollHeight) == totalHeight = scrollHeight

\* totalHeight >= scrollHeight
scrolledToEnd(totalHeight, scrollHeight) == totalHeight >= scrollHeight

\* No autoScroll was called. Else: the promise is pending or resolved, with
\* totalHeight, the scrollHeight of the page now and as the latest poll read
\* it, the polls made, the time since the call and the growths of the page.
NoScroll ==
  [promise |-> "none", totalHeight |-> 0, height |-> 0, scrollHeight |-> 0,
   polls |-> 0, time |-> 0, growths |-> 0]

\* One call of the timer: it reads scrollHeight, scrolls by distance, and
\* clears the timer and resolves when it has scrolled to the end.
poll(s) ==
  LET totalHeight == s.totalHeight + distance
  IN  [s EXCEPT !.scrollHeight = s.height,
                !.totalHeight  = totalHeight,
                !.polls        = @ + 1,
                !.time         = @ + ScrollInterval,
                !.promise      = IF scrolledToEnd(totalHeight, s.height) THEN "resolved"
                                 ELSE "pending"]

(***************************************************************************)
(* getExperiences, getVolunteerings and getHonors: the page scripts of the *)
(* list sections                                                           *)
(***************************************************************************)

\* A list item is its innerText split at the line ends: one line or more. A
\* line is the sequence of its pieces; the separators " - " and the middle
\* dot between spaces, written " . " here, are pieces of their own.
NothingToSee == "Nothing to see"

DotSeparator == " . "

DashSeparator == " - "

\* innerText.split('\n').filter((value, index) => index % 2 == 0)
evenLines(lines) == [k \in 1..((Len(lines) + 1) \div 2) |-> lines[2 * k - 1]]

\* array[index], with the index from 0: undefined past the end.
ElementAt(array, index) ==
  IF index < Len(array) THEN Str(array[index + 1]) ELSE Undefined

\* line.includes('Nothing to see')
includesNothingToSee(line) == \E i \in DOMAIN line : line[i] = NothingToSee

\* line.split(separator): the parts between the separators, one at least.
RECURSIVE split(_, _)
split(line, separator) ==
  IF line = <<>> THEN << <<>> >>
  ELSE LET rest == split(Tail(line), separator)
       IN  IF Head(line) = separator THEN << <<>> >> \o rest
           ELSE << <<Head(line)>> \o Head(rest) >> \o Tail(rest)

\* lines.slice(from).join(", ")
RECURSIVE join(_)
join(lines) ==
  IF lines = <<>> THEN <<>>
  ELSE IF Len(lines) = 1 THEN lines[1]
  ELSE lines[1] \o <<", ">> \o join(Tail(lines))

sliceFrom(array, from) ==
  IF from >= Len(array) THEN <<>> ELSE SubSeq(array, from + 1, Len(array))

\* The record the script of getExperiences and of getVolunteerings pushes for
\* the lines of one item. dates.split(...) throws when dates is undefined.
positionThrows(exps) == ElementAt(exps, 2).t = "undefined"

positionData(exps) ==
  LET dates == exps[3]
      range == split(split(dates, DotSeparator)[1], DashSeparator)
  IN  [title       |-> ElementAt(exps, 0),
       company     |-> ElementAt(exps, 1),
       startDate   |-> ElementAt(range, 0),
       endDate     |-> ElementAt(range, 1),
       description |-> Str(join(sliceFrom(exps, 3)))]

\* The record the script of getHonors pushes. hons[1].split(...) throws when
\* hons[1] is undefined.
honorThrows(hons) == ElementAt(hons, 1).t = "undefined"

honorData(hons) ==
  LET parts == split(hons[2], DotSeparator)
  IN  [title       |-> ElementAt(hons, 0),
       company     |-> ElementAt(parts, 0),
       date        |-> ElementAt(parts, 1),
       description |-> Str(join(sliceFrom(hons, 2)))]

\* page.evaluate returns the script's value by value: a property whose value
\* is undefined is not in the object the caller gets.
returnByValue(record) ==
  [k \in {f \in DOMAIN record : record[f].t # "undefined"} |-> record[k]]

\* The items the loop of a list script makes a record of.
withoutEmptyState(items) ==
  SelectSeq(items, LAMBDA item : ~includesNothingToSee(evenLines(item)[1]))

\* The outcome of a list script: it threw, or the array it returned.
scriptOutcome(threw, data) ==
  IF threw THEN [threw |-> TRUE, data |-> <<>>] ELSE [threw |-> FALSE, data |-> data]

rawExperiences(items) ==
  LET kept == withoutEmptyState(items)
  IN  scriptOutcome(\E i \in 1..Len(kept) : positionThrows(evenLines(kept[i])),
                    [i \in 1..Len(kept) |->
                       returnByValue(positionData(evenLines(kept[i])))])

volunteerings(items) ==
  LET kept == withoutEmptyState(items)
  IN  scriptOutcome(\E i \in 1..Len(kept) : positionThrows(evenLines(kept[i])),
                    [i \in 1..Len(kept) |->
                       returnByValue(positionData(evenLines(kept[i])))])

honors(items) ==
  LET kept == withoutEmptyState(items)
  IN  scriptOutcome(\E i \in 1..Len(kept) : honorThrows(evenLines(kept[i])),
                    [i \in 1..Len(kept) |->
                       returnByValue(honorData(evenLines(kept[i])))])

\* The script of a list section on the items of its page.
listScript(section, items) ==
  CASE section = "experiences"   -> rawExperiences(items)
    [] section = "volunteerings" -> volunteerings(items)
    [] section = "honors"        -> honors(items)

(***************************************************************************)
(* The scraper: its options, its browser and the calls in progress         *)
(***************************************************************************)

VARIABLES
  scraper,         \* "unconstructed", "constructed", or "failed": the constructor threw
  options,         \* this.options
  browser,         \* this.browser: NoBrowser (null) or a launched browser
  pagesOf,         \* per launched browser, its open pages in the order of browser.pages()
  closedBrowsers,  \* the launched browsers that browser.close() has closed
  nextPage,        \* the next page the browser automation creates
  call,            \* per caller, the asynchronous method call it has in progress
  givenOptions,    \* the argument the constructor was called with
  dateCalls,       \* the getDate calls made, at most two, the latest last
  feedCall,        \* the feed extraction made on a rendered page, if any
  scroll           \* the autoScroll in progress on a page, and the page's height

vars ==
  <<scraper, options, browser, pagesOf, closedBrowsers, nextPage, call,
    givenOptions, dateCalls, feedCall, scroll>>

scraperVars ==
  <<scraper, options, browser, pagesOf, closedBrowsers, nextPage, call,
    givenOptions>>

feedVars == <<dateCalls, feedCall, scroll>>

\* The pages and the browsers a behaviour may create.
MaxPages == 9

MaxBrowsers == 2

NoBrowser == 0

NoPage == 0

Callers == {"c1", "c2"}

\* An option value, as far as the constructor looks at it: its typeof and
\* whether it is truthy ("undefined" stands for an option that is not given).
Opt(type, truthy) == [t |-> type, truthy |-> truthy]

NotGiven == Opt("undefined", FALSE)

OptionValues ==
  {NotGiven} \cup
  {Opt(type, truthy) : type \in {"string", "number", "boolean"}, truthy \in BOOLEAN}

\* The initial value of this.options.
DefaultOptions ==
  [sessionCookieValue |-> Opt("string", FALSE),
   keepAlive          |-> Opt("boolean", FALSE),
   timeout            |-> Opt("number", TRUE),
   userAgent          |-> Opt("string", TRUE),
   headless           |-> Opt("boolean", FALSE)]

OptionNames == DOMAIN DefaultOptions

\* The checks of the constructor, in order: the first that fails throws.
constructorThrows(userDefinedOptions) ==
  \/ ~userDefinedOptions.sessionCookieValue.truthy
  \/ /\ userDefinedOptions.sessionCookieValue.truthy
     /\ userDefinedOptions.sessionCookieValue.t # "string"
  \/ /\ userDefinedOptions.userAgent.truthy
     /\ userDefinedOptions.userAgent.t # "string"
  \/ /\ userDefinedOptions.keepAlive.t # "undefined"
     /\ userDefinedOptions.keepAlive.t # "boolean"
  \/ /\ userDefinedOptions.timeout.t # "undefined"
     /\ userDefinedOptions.timeout.t # "number"
  \/ /\ userDefinedOptions.headless.t # "undefined"
     /\ userDefinedOptions.headless.t # "boolean"

\* Object.assign(this.options, userDefinedOptions)
assignOptions(userDefinedOptions) ==
  [k \in OptionNames |->
     IF userDefinedOptions[k].t = "undefined" THEN DefaultOptions[k]
     ELSE userDefinedOptions[k]]

\* The options the constructor is called with: the session cookie alone, or
\* with it one option of any value (the session cookie itself included).
UsableOptions ==
  {[sessionCookieValue |-> Opt("string", TRUE), keepAlive |-> NotGiven,
    timeout |-> NotGiven, userAgent |-> NotGiven, headless |-> NotGiven]}

UserDefinedOptions ==
  UsableOptions \cup
  {[u EXCEPT ![k] = v] : u \in UsableOptions, k \in OptionNames, v \in OptionValues}

(***************************************************************************)
(* Profile URLs                                                            *)
(***************************************************************************)

\* A URL is the sequence of its pieces: the scheme, the pieces of the host,
\* then "/" and the pieces of the path.
ProfileUrls ==
  { <<>>,
    <<"https://", "www.", "linkedin.com", "/", "in", "/", "jane", "/">>,
    <<"https://", "example.org", "/", "in", "/", "jane", "/">>,
    <<"https://", "example.org", "/", "linkedin.com", "/", "jane", "/">> }

\* profileUrl.includes('linkedin.com/')
includesLinkedIn(profileUrl) ==
  \E i \in 1..(Len(profileUrl) - 1) :
    profileUrl[i] = "linkedin.com" /\ profileUrl[i + 1] = "/"

\* The host of a URL: the pieces between the scheme and the first "/".
RECURSIVE UpToSlash(_)
UpToSlash(pieces) ==
  IF pieces = <<>> \/ Head(pieces) = "/" THEN <<>>
  ELSE <<Head(pieces)>> \o UpToSlash(Tail(pieces))

HostOf(profileUrl) ==
  IF profileUrl = <<>> THEN <<>> ELSE UpToSlash(Tail(profileUrl))

\* The URL is a page of the site when its host is linkedin.com or below it.
BelongsToSite(profileUrl) ==
  LET host == HostOf(profileUrl)
  IN  host # <<>> /\ host[Len(host)] = "linkedin.com"

\* The checks run makes before its try block: "" when the call goes on,
\* else the error it throws.
runRejects(theBrowser, profileUrl) ==
  IF theBrowser = NoBrowser THEN "Browser is not set. Please run the setup method first."
  ELSE IF profileUrl = <<>> THEN "No profileUrl given."
  ELSE IF ~includesLinkedIn(profileUrl) THEN "The given URL to scrape is not a linkedin.com url."
  ELSE ""

(***************************************************************************)
(* The calls                                                               *)
(***************************************************************************)

\* A run that extracts the volunteerings before the skills.
MutSectionsVolunteeringsFirst ==
  <<"profile", "experiences", "volunteerings", "skills", "honors", "posts", "comments">>

\* The sections of a run, in the order run extracts them.
Sections ==
  <<"profile", "experiences", "skills", "volunteerings", "honors", "posts", "comments">>

\* The locals of run a section's extraction sets.
localsOf(section) ==
  IF section = "profile" THEN {"userProfile", "education", "license", "language"}
  ELSE {section}

\* The properties of the object run returns.
resultKeys ==
  {"userProfile", "experiences", "education", "skills", "volunteerings", "posts", "comments"}

NoResult == [keys |-> {}, posts |-> <<>>, comments |-> <<>>]

\* What a rendered page holds: the post elements of the activity page and
\* the comment elements of the comments page, with the profile owner's name.
ProfileOwner == "jane"

PagePosts ==
  { <<>>,
    <<[urn |-> NoUrn, text |-> "p1"]>>,
    <<[urn |-> <<"urn", "li">>, text |-> "p1"]>>,
    <<[urn |-> ActivityUrn(<<7>>), text |-> "p1"], [urn |-> ActivityUrn(<<5>>), text |-> "p2"]>> }

PageComments ==
  { <<>>,
    <<[author |-> "jane", text |-> "c1", dataId |-> NoDataId]>>,
    <<[author |-> NoNameElement, text |-> "c1", dataId |-> NoDataId]>>,
    <<[author |-> "jane", text |-> "c1", dataId |-> CommentUrn(<<5>>, <<7>>)],
      [author |-> "joe", text |-> "c2", dataId |-> CommentUrn(<<5>>, <<8>>)]>> }

\* The list items of the page of a list section: none, a position with its
\* dates, or a position without a date line.
PageItems ==
  { <<>>,
    << << <<"Engineer">>, <<>>, <<"Acme">>, <<>>, <<"2020", DashSeparator, "2021">> >> >>,
    << << <<"Engineer">>, <<>>, <<"Acme">> >> >> }

\* What the page of a section shows once it has loaded.
PageContents(section) ==
  [posts    : IF section = "posts" THEN PagePosts ELSE {<<>>},
   comments : IF section = "comments" THEN PageComments ELSE {<<>>},
   items    : IF section \in {"experiences", "volunteerings", "honors"} THEN PageItems
              ELSE {<<>>}]

\* The page script of a section throws on what the page shows.
pageScriptThrows(section, posts, comments, items) ==
  CASE section = "posts"    -> postsScriptThrows(posts)
    [] section = "comments" -> commentsScriptThrows(comments)
    [] section \in {"experiences", "volunteerings", "honors"}
                            -> listScript(section, items).threw
    [] OTHER                -> FALSE

\* The section a call is at; the login page for checkIfLoggedIn.
sectionOf(rec) == IF rec.op = "run" THEN Sections[rec.sec] ELSE "login"

\* The options argument of run.
RunMemories ==
  {NoMemory, [lastPostID |-> Num(<<5>>), lastCommentID |-> Num(<<5>>)]}

\* A caller with no call in progress, before its first call.
Snapshot == [browser |-> browser, open |-> pagesOf]

NoCall ==
  [op |-> "none", pc |-> "idle", sec |-> 0, profileUrl |-> <<>>, memory |-> NoMemory,
   page |-> NoPage, cur |-> NoPage, locals |-> {}, posts |-> <<>>, comments |-> <<>>,
   navs |-> <<>>, closes |-> 0, outcome |-> "none", error |-> "", result |-> NoResult,
   redirected |-> FALSE, url |-> <<>>,
   pagePosts |-> <<>>, pageComments |-> <<>>, pageItems |-> <<>>,
   pre |-> [browser |-> NoBrowser, open |-> <<>>]]

NewCall(op) == [NoCall EXCEPT !.op = op, !.pre = Snapshot]

Range(seq) == {seq[i] : i \in DOMAIN seq}

Without(seq, p) == SelectSeq(seq, LAMBDA q : q # p)

IsOpen(p) == \E b \in DOMAIN pagesOf : p \in Range(pagesOf[b])

OpenPages == UNION {Range(pagesOf[b]) : b \in DOMAIN pagesOf}

Idle(c) == scraper = "constructed" /\ call[c].pc = "idle"

(***************************************************************************)
(* close                                                                   *)
(***************************************************************************)

\* close(page): the promise it returns resolves at once; the statements below
\* that return are never reached. The pages it closes, and whether it closes
\* the browser.
close(page) == [pages |-> {}, browser |-> FALSE]

\* The open pages and the closed browsers after an effect of close.
pagesAfter(effect) ==
  [b \in DOMAIN pagesOf |->
     IF effect.browser /\ b = browser THEN <<>>
     ELSE SelectSeq(pagesOf[b], LAMBDA q : q \notin effect.pages)]

closedAfter(effect) ==
  IF effect.browser /\ browser # NoBrowser THEN closedBrowsers \cup {browser}
  ELSE closedBrowsers

(***************************************************************************)
(* Errors                                                                  *)
(***************************************************************************)

\* The catch block of createPage: close(), then the error goes on.
createPageCatch(rec) == [rec EXCEPT !.closes = @ + 1]

\* The catch block of run: close(), then the error is thrown to the caller.
MutRunCatchReturnsPartial(rec, err) ==
  [rec EXCEPT !.closes = @ + 1, !.pc = "idle", !.outcome = "returned", !.error = err,
              !.result = [keys |-> rec.locals, posts |-> rec.posts,
                          comments |-> rec.comments]]

runCatch(rec, err) ==
  [rec EXCEPT !.closes = @ + 1, !.pc = "idle", !.outcome = "threw", !.error = err,
              !.result = NoResult]

\* checkIfLoggedIn catches nothing: the error reaches the caller.
uncaught(rec, err) ==
  [rec EXCEPT !.pc = "idle", !.outcome = "threw", !.error = err]

\* An error thrown in caller c's call, inside the try block of createPage or
\* outside it, with every catch block on its way to the caller.
Throw(c, err, inCreatePage) ==
  LET rec    == IF inCreatePage THEN createPageCatch(call[c]) ELSE call[c]
      effect == IF inCreatePage \/ rec.op = "run" THEN close(NoPage)
                ELSE [pages |-> {}, browser |-> FALSE]
  IN  /\ call' = [call EXCEPT ![c] = IF rec.op = "run" THEN runCatch(rec, err)
                                     ELSE uncaught(rec, err)]
      /\ pagesOf' = pagesAfter(effect)
      /\ closedBrowsers' = closedAfter(effect)

(***************************************************************************)
(* The constructor, setup and close                                        *)
(***************************************************************************)

Construct(u) ==
  /\ scraper = "unconstructed"
  /\ givenOptions' = u
  /\ IF constructorThrows(u)
       THEN scraper' = "failed" /\ UNCHANGED options
       ELSE scraper' = "constructed" /\ options' = assignOptions(u)
  /\ UNCHANGED <<browser, pagesOf, closedBrowsers, nextPage, call, feedVars>>

\* setup(): puppeteer.launch() gives a browser with one blank page.
SetupLaunches(c) ==
  /\ Idle(c)
  /\ Len(pagesOf) < MaxBrowsers
  /\ nextPage <= MaxPages
  /\ browser' = Len(pagesOf) + 1
  /\ pagesOf' = Append(pagesOf, <<nextPage>>)
  /\ nextPage' = nextPage + 1
  /\ call' = [call EXCEPT ![c] = [NewCall("setup") EXCEPT !.outcome = "returned"]]
  /\ UNCHANGED <<scraper, options, closedBrowsers, givenOptions, feedVars>>

\* setup() when the launch fails: close(), then the error is thrown.
SetupFails(c) ==
  /\ Idle(c)
  /\ call' = [call EXCEPT ![c] = [NewCall("setup") EXCEPT !.outcome = "threw",
                                    !.error = "LaunchError", !.closes = 1]]
  /\ pagesOf' = pagesAfter(close(NoPage))
  /\ closedBrowsers' = closedAfter(close(NoPage))
  /\ UNCHANGED <<scraper, options, browser, nextPage, givenOptions, feedVars>>

\* close(page), called by the user of the scraper.
Close(c, page) ==
  /\ Idle(c)
  /\ call' = [call EXCEPT ![c] = [NewCall("close") EXCEPT !.outcome = "returned",
                                    !.page = page, !.closes = 1]]
  /\ pagesOf' = pagesAfter(close(page))
  /\ closedBrowsers' = closedAfter(close(page))
  /\ UNCHANGED <<scraper, options, browser, nextPage, givenOptions, feedVars>>

(***************************************************************************)
(* createPage                                                              *)
(***************************************************************************)

\* createPage up to browser.newPage(): without a browser it throws before its
\* try block; a closed browser rejects newPage.
NewPage(c) ==
  /\ scraper = "constructed"
  /\ call[c].pc = "newPage"
  /\ IF browser = NoBrowser
       THEN Throw(c, "Browser not set.", FALSE) /\ UNCHANGED nextPage
     ELSE IF browser \in closedBrowsers
       THEN Throw(c, "Target closed", TRUE) /\ UNCHANGED nextPage
     ELSE /\ nextPage <= MaxPages
          /\ pagesOf' = [pagesOf EXCEPT ![browser] = Append(@, nextPage)]
          /\ nextPage' = nextPage + 1
          /\ call' = [call EXCEPT ![c].cur = nextPage, ![c].pc = "closeFirst"]
          /\ UNCHANGED closedBrowsers
  /\ UNCHANGED <<scraper, options, browser, givenOptions, feedVars>>

\* firstPage = (await this.browser.pages())[0]; await firstPage.close()
firstPage(pages) == Head(pages)

pagesAfterCloseFirst(pages) == Without(pages, firstPage(pages))

CloseFirst(c) ==
  /\ call[c].pc = "closeFirst"
  /\ IF browser = NoBrowser \/ pagesOf[browser] = <<>>
       THEN Throw(c, "TypeError", TRUE)
       ELSE /\ pagesOf' = [pagesOf EXCEPT ![browser] = pagesAfterCloseFirst(@)]
            /\ call' = [call EXCEPT ![c].pc = "configure"]
            /\ UNCHANGED closedBrowsers
  /\ UNCHANGED <<scraper, options, browser, nextPage, givenOptions, feedVars>>

\* The rest of createPage, from page.target().createCDPSession() to
\* page.setCookie(): a closed page rejects these calls. run keeps the page of
\* its own createPage call in its local page.
Configure(c) ==
  /\ call[c].pc = "configure"
  /\ IF IsOpen(call[c].cur)
       THEN /\ call' = [call EXCEPT
                         ![c].pc = "goto",
                         ![c].page = IF call[c].op = "run" /\ call[c].sec = 1
                                       THEN call[c].cur ELSE @]
            /\ UNCHANGED <<pagesOf, closedBrowsers>>
       ELSE Throw(c, "Target closed", TRUE)
  /\ UNCHANGED <<scraper, options, browser, nextPage, givenOptions, feedVars>>

(***************************************************************************)
(* run and the section methods                                             *)
(***************************************************************************)

frame == <<scraper, options, browser, nextPage, givenOptions, feedVars>>

\* The URL the page shows once the login page has loaded: the login page
\* itself, the login page with a query, or the feed it redirected to.
LoginUrls ==
  { <<"https://", "www.", "linkedin.com", "/login">>,
    <<"https://", "www.", "linkedin.com", "/login", "?fromSignIn=true">>,
    <<"https://", "www.", "linkedin.com", "/feed", "/">> }

\* url.endsWith('/login')
endsWithLogin(url) == url # <<>> /\ url[Len(url)] = "/login"

\* A check that finds every session logged in.
MutIsLoggedInAlways(url) == TRUE

\* isLoggedIn = !url.endsWith('/login')
isLoggedIn(url) == ~endsWithLogin(url)

\* run(profileUrl, options) up to its try block.
Run(c, profileUrl, memory) ==
  /\ Idle(c)
  /\ LET err == runRejects(browser, profileUrl)
         rec == [NewCall("run") EXCEPT !.profileUrl = profileUrl, !.memory = memory]
     IN  call' = [call EXCEPT ![c] =
                    IF err # "" THEN [rec EXCEPT !.outcome = "threw", !.error = err]
                    ELSE [rec EXCEPT !.sec = 1, !.pc = "newPage"]]
  /\ UNCHANGED <<pagesOf, closedBrowsers, frame>>

\* page.goto(...) of run, of a section method or of checkIfLoggedIn; a closed
\* page rejects it. The page then shows the elements its script will read. checkIfLoggedIn then reads page.url() and whether it is
\* logged in.
Goto(c) ==
  /\ call[c].pc = "goto"
  /\ IF IsOpen(call[c].cur)
       THEN /\ \E url \in (IF call[c].op = "run" THEN {<<>>} ELSE LoginUrls),
                    shown \in PageContents(sectionOf(call[c])) :
                 call' = [call EXCEPT
                            ![c].navs = Append(@, call[c].sec),
                            ![c].url = url,
                            ![c].redirected = isLoggedIn(url),
                            ![c].pagePosts = IF sectionOf(call[c]) = "posts"
                                               THEN shown.posts ELSE @,
                            ![c].pageComments = shown.comments,
                            ![c].pageItems = shown.items,
                            ![c].pc = IF call[c].op = "run" THEN "evaluate"
                                      ELSE "closePage"]
            /\ UNCHANGED <<pagesOf, closedBrowsers>>
       ELSE Throw(c, "Target closed", FALSE)
  /\ UNCHANGED frame

\* page.goto(...) when the navigation fails or times out.
GotoFails(c) ==
  /\ call[c].pc = "goto"
  /\ IsOpen(call[c].cur)
  /\ Throw(c, "NavigationError", FALSE)
  /\ call'[c].navs = call[c].navs
  /\ UNCHANGED frame

\* The section's page script, after the settle delay and autoScroll, and what
\* the method makes of its result; then the next section, or the release. A
\* script that throws on what the page shows fails the run.
ScriptError == "Evaluation failed"

Evaluate(c) ==
  /\ call[c].pc = "evaluate"
  /\ LET rec     == call[c]
         section == Sections[rec.sec]
     IN  IF pageScriptThrows(section, rec.pagePosts, rec.pageComments, rec.pageItems)
           THEN Throw(c, ScriptError, FALSE)
           ELSE /\ call' = [call EXCEPT ![c] =
                     [rec EXCEPT
                        !.locals    = @ \cup localsOf(section),
                        !.posts     = IF section = "posts"
                                        THEN filteredUserPostData(
                                               rawUserPostData(rec.pagePosts),
                                               lastPostIDOf(rec.memory))
                                        ELSE @,
                        !.comments  = IF section = "comments"
                                        THEN filteredUserCommentData(
                                               rawComment(rec.pageComments, ProfileOwner),
                                               lastCommentIDOf(rec.memory))
                                        ELSE @,
                        !.pageItems = <<>>,
                        !.sec       = IF rec.sec < Len(Sections) THEN rec.sec + 1 ELSE @,
                        !.pc        = IF rec.sec < Len(Sections) THEN "newPage"
                                      ELSE "release"]]
                /\ UNCHANGED <<pagesOf, closedBrowsers>>
  /\ UNCHANGED frame

\* The page script, or the wait before it, fails.
EvaluateFails(c) ==
  /\ call[c].pc = "evaluate"
  /\ Throw(c, "ExtractionError", FALSE)
  /\ UNCHANGED frame

\* The object run returns.
runResult(rec) ==
  [keys |-> resultKeys, posts |-> rec.posts, comments |-> rec.comments]

\* The end of run's try block: close(page) unless keepAlive is set, else
\* page.close(), which a closed page rejects; then the result is returned.
Release(c) ==
  /\ call[c].pc = "release"
  /\ LET rec == call[c]
     IN  IF ~options.keepAlive.truthy
           THEN /\ pagesOf' = pagesAfter(close(rec.page))
                /\ closedBrowsers' = closedAfter(close(rec.page))
                /\ call' = [call EXCEPT ![c] =
                     [rec EXCEPT !.closes = @ + 1, !.pc = "idle",
                                 !.outcome = "returned", !.result = runResult(rec)]]
         ELSE IF IsOpen(rec.page)
           THEN /\ pagesOf' = [b \in DOMAIN pagesOf |-> Without(pagesOf[b], rec.page)]
                /\ call' = [call EXCEPT ![c] =
                     [rec EXCEPT !.pc = "idle", !.outcome = "returned",
                                 !.result = runResult(rec)]]
                /\ UNCHANGED closedBrowsers
         ELSE Throw(c, "Protocol error: Connection closed.", FALSE)
  /\ UNCHANGED frame

(***************************************************************************)
(* checkIfLoggedIn                                                         *)
(***************************************************************************)

CheckIfLoggedIn(c) ==
  /\ Idle(c)
  /\ call' = [call EXCEPT ![c] = [NewCall("checkIfLoggedIn") EXCEPT !.pc = "newPage"]]
  /\ UNCHANGED <<pagesOf, closedBrowsers, frame>>

\* isLoggedIn = !url.endsWith('/login'); await page.close(); then the method
\* returns, or throws SessionExpired.
ClosePage(c) ==
  /\ call[c].pc = "closePage"
  /\ LET rec == call[c]
     IN  IF IsOpen(rec.cur)
           THEN /\ pagesOf' = [b \in DOMAIN pagesOf |-> Without(pagesOf[b], rec.cur)]
                /\ call' = [call EXCEPT ![c] =
                     IF rec.redirected
                       THEN [rec EXCEPT !.pc = "idle", !.outcome = "returned"]
                       ELSE uncaught(rec, "SessionExpired")]
                /\ UNCHANGED closedBrowsers
           ELSE Throw(c, "Protocol error: Connection closed.", FALSE)
  /\ UNCHANGED frame

(***************************************************************************)
(* The scraper's specification: one caller, one call at a time             *)
(***************************************************************************)

NoFeedCall == [op |-> "none", posts |-> <<>>, comments |-> <<>>, memory |-> NoMemory,
               out |-> <<>>, items |-> <<>>, threw |-> FALSE]

Init ==
  /\ scraper = "unconstructed"
  /\ options = DefaultOptions
  /\ givenOptions = [k \in OptionNames |-> NotGiven]
  /\ browser = NoBrowser
  /\ pagesOf = <<>>
  /\ closedBrowsers = {}
  /\ nextPage = 1
  /\ call = [c \in Callers |-> NoCall]
  /\ dateCalls = <<>>
  /\ feedCall = NoFeedCall
  /\ scroll = NoScroll

Step(c) ==
  \/ SetupLaunches(c)
  \/ SetupFails(c)
  \/ \E page \in {NoPage} \cup OpenPages : Close(c, page)
  \/ \E profileUrl \in ProfileUrls, memory \in RunMemories : Run(c, profileUrl, memory)
  \/ CheckIfLoggedIn(c)
  \/ NewPage(c)
  \/ CloseFirst(c)
  \/ Configure(c)
  \/ Goto(c)
  \/ GotoFails(c)
  \/ Evaluate(c)
  \/ EvaluateFails(c)
  \/ Release(c)
  \/ ClosePage(c)

Next ==
  \/ \E u \in UserDefinedOptions : Construct(u)
  \/ Step("c1")

Spec == Init /\ [][Next]_vars

(***************************************************************************)
(* autoScroll on a page that loads more while it is scrolled               *)
(***************************************************************************)

\* The heights of a page when the loop starts, what it grows by once it has
\* loaded more, how often it does, and the height it ends at.
MaxHeight == 3000

MaxGrowths == 3

StartHeights == {0, 300, 500, 800, 1200}

Growths == {200, 500, 1000}

AutoScroll(height) ==
  /\ scroll.promise = "none"
  /\ scroll' = [NoScroll EXCEPT !.promise = "pending", !.height = height]
  /\ UNCHANGED <<dateCalls, feedCall, scraperVars>>

\* The timer fires.
Poll ==
  /\ scroll.promise = "pending"
  /\ scroll' = poll(scroll)
  /\ UNCHANGED <<dateCalls, feedCall, scraperVars>>

\* The page loads more and gets higher.
Grow(by) ==
  /\ scroll.promise = "pending"
  /\ scroll.growths < MaxGrowths
  /\ scroll.height + by <= MaxHeight
  /\ scroll' = [scroll EXCEPT !.height = @ + by, !.growths = @ + 1]
  /\ UNCHANGED <<dateCalls, feedCall, scraperVars>>

NextScroll ==
  \/ \E height \in StartHeights : AutoScroll(height)
  \/ Poll
  \/ \E by \in Growths : Grow(by)

\* The timer of a pending loop fires again and again.
SpecScroll == Init /\ [][NextScroll]_vars /\ WF_vars(Poll)

(***************************************************************************)
(* Two callers of run on one scraper: the steps of their calls interleave  *)
(* at every await                                                          *)
(***************************************************************************)

\* The profile the two callers scrape.
JaneUrl == <<"https://", "www.", "linkedin.com", "/", "in", "/", "jane", "/">>

\* Each caller makes one run.
RunStep(c) ==
  \/ /\ call[c].op # "run"
     /\ Run(c, JaneUrl, NoMemory)
  \/ NewPage(c)
  \/ CloseFirst(c)
  \/ Configure(c)
  \/ Goto(c)
  \/ GotoFails(c)
  \/ Evaluate(c)
  \/ EvaluateFails(c)
  \/ Release(c)

NextRuns ==
  \/ \E u \in UsableOptions : Construct(u)
  \/ /\ browser = NoBrowser
     /\ SetupLaunches("c1")
  \/ \E c \in Callers : RunStep(c)

SpecRuns == Init /\ [][NextRuns]_vars

(***************************************************************************)
(* The decoder and the feed pipeline on their own: getDate on chosen       *)
(* identifiers, and the extraction and filter of getPosts and getComments  *)
(* on chosen pages and watermarks                                          *)
(***************************************************************************)

\* 2^41 - 1, 2^53 and two identifiers of the site; each with the offsets
\* 0..MaxOffset added.
TwoTo41Less1 == <<2, 1, 9, 9, 0, 2, 3, 2, 5, 5, 5, 5, 1>>

TwoTo53 == <<9, 0, 0, 7, 1, 9, 9, 2, 5, 4, 7, 4, 0, 9, 9, 2>>

ActivityA == <<7, 1, 9, 3, 4, 5, 3, 0, 9, 8, 0, 4, 0, 1, 0, 2, 9, 1, 2>>

ActivityB == <<7, 1, 9, 9, 9, 9, 7, 9, 6, 2, 8, 6, 3, 2, 4, 7, 3, 6, 0>>

MaxOffset == 2

WithOffsets(bases) == {DecMulAdd(b, 1, k) : b \in bases, k \in 0..MaxOffset}

Identifiers == WithOffsets({<<0>>, TwoTo41Less1, TwoTo53, ActivityA, ActivityB})

FeedIdentifiers == WithOffsets({TwoTo41Less1, ActivityA})

\* The lists of at most n elements of a set.
RECURSIVE ListsUpTo(_, _)
ListsUpTo(S, n) ==
  IF n = 0 THEN {<<>>}
  ELSE LET shorter == ListsUpTo(S, n - 1)
       IN  shorter \cup {Append(l, x) : l \in {k \in shorter : Len(k) = n - 1}, x \in S}

MaxFeedItems == 2

FeedPosts ==
  ListsUpTo({[urn |-> NoUrn, text |-> "p"]} \cup
            {[urn |-> ActivityUrn(id), text |-> "p"] : id \in FeedIdentifiers},
            MaxFeedItems)

FeedComments ==
  ListsUpTo({[author |-> a, text |-> t, dataId |-> d] :
               a \in {"jane", "joe"}, t \in {"c1", "c2"},
               d \in {NoDataId, CommentUrn(ActivityA, DecMulAdd(ActivityA, 1, 1))}},
            MaxFeedItems)

\* The watermarks a caller passes are Numbers: none, zero, or the Number of
\* an identifier seen before.
FeedMemories ==
  {NoMemory} \cup
  {[lastPostID |-> Num(w), lastCommentID |-> Num(w)] :
     w \in {<<0>>, StringToNumber(TwoTo41Less1), StringToNumber(ActivityA)}}

\* getDate is called on one identifier, then on a second one to compare.
GetDate(postId) ==
  /\ Len(dateCalls) < 2
  /\ dateCalls' = Append(dateCalls, [postId |-> postId, date |-> getDate(postId)])
  /\ UNCHANGED <<feedCall, scroll, scraperVars>>

GetPostsData(posts, memory) ==
  /\ feedCall' = [op |-> "getPosts", posts |-> posts, comments |-> <<>>,
                  memory |-> memory, items |-> <<>>, threw |-> postsScriptThrows(posts),
                  out |-> filteredUserPostData(rawUserPostData(posts),
                                               lastPostIDOf(memory))]
  /\ UNCHANGED <<dateCalls, scroll, scraperVars>>

GetCommentsData(comments, memory) ==
  /\ feedCall' = [op |-> "getComments", posts |-> <<>>, comments |-> comments,
                  memory |-> memory, items |-> <<>>,
                  threw |-> commentsScriptThrows(comments),
                  out |-> filteredUserCommentData(rawComment(comments, ProfileOwner),
                                                  lastCommentIDOf(memory))]
  /\ UNCHANGED <<dateCalls, scroll, scraperVars>>

\* The list items of a section page: a position with its dates and a
\* description, one without an end date, one without a date line, one with
\* its title alone, an honor with its issuer and date, and the item a
\* section without entries shows.
ListItems ==
  { << <<"Engineer">>, <<>>, <<"Acme">>, <<>>,
       <<"Jan 2020", DashSeparator, "Present", DotSeparator, "3 yrs">>, <<>>,
       <<"Built things">> >>,
    << <<"Engineer">>, <<>>, <<"Acme">>, <<>>, <<"2020">> >>,
    << <<"Engineer">>, <<>>, <<"Acme">> >>,
    << <<"Engineer">> >>,
    << <<"Best paper">>, <<>>, <<"Issued by Acme", DotSeparator, "Jan 2020">> >>,
    << <<NothingToSee, " for now">>, <<>>, <<"Nothing was added yet">> >> }

MaxListItems == 2

ListPages == ListsUpTo(ListItems, MaxListItems)

ListSections == {"experiences", "volunteerings", "honors"}

\* getExperiences, getVolunteerings or getHonors on the items of a page: the
\* method returns what its script returned, or throws what it threw.
GetListData(section, items) ==
  /\ feedCall' = [NoFeedCall EXCEPT !.op = section, !.items = items,
                                    !.threw = listScript(section, items).threw,
                                    !.out = listScript(section, items).data]
  /\ UNCHANGED <<dateCalls, scroll, scraperVars>>

\* One feed extraction, or up to two getDate calls, per behaviour.
NextFeed ==
  \/ /\ feedCall.op = "none"
     /\ \E postId \in Identifiers : GetDate(postId)
  \/ /\ feedCall.op = "none" /\ dateCalls = <<>>
     /\ \E posts \in FeedPosts, memory \in FeedMemories : GetPostsData(posts, memory)
  \/ /\ feedCall.op = "none" /\ dateCalls = <<>>
     /\ \E comments \in FeedComments, memory \in FeedMemories :
          GetCommentsData(comments, memory)
  \/ /\ feedCall.op = "none" /\ dateCalls = <<>>
     /\ \E section \in ListSections, items \in ListPages : GetListData(section, items)

SpecFeed == Init /\ [][NextFeed]_vars

(***************************************************************************)
(* Properties of run, of the constructor and of checkIfLoggedIn            *)
(***************************************************************************)

\* A call of run that has ended, and one that got past the checks before the
\* try block.
RunEnded(c) == call[c].op = "run" /\ call[c].pc = "idle"

PastValidation(c) == call[c].op = "run" /\ call[c].sec >= 1

\* C1: once a run that got past its input validation has returned or
\* rethrown, with keepAlive not set, the browser it ran on is closed.
C1_BrowserReleasedAfterRun ==
  \A c \in Callers :
    (RunEnded(c) /\ PastValidation(c) /\ ~options.keepAlive.truthy)
      => call[c].pre.browser \in closedBrowsers

\* C2: a run with a profile URL that is empty or is not a URL of the site
\* throws at once and has no effect: no page is created, nothing is
\* navigated, close is not called, the browser and its open pages are as
\* before the call.
C2_InvalidUrlNoEffect ==
  \A c \in Callers :
    (call[c].op = "run" /\ ~BelongsToSite(call[c].profileUrl))
      => /\ call[c].pc = "idle"
         /\ call[c].outcome = "threw"
         /\ call[c].cur = NoPage
         /\ call[c].navs = <<>>
         /\ call[c].closes = 0
         /\ browser = call[c].pre.browser
         /\ pagesOf = call[c].pre.open

\* The options of the wrong type: a session cookie that is missing, empty or
\* no string, or another option that is given and has not its type.
WronglyTyped(u) ==
  \/ ~u.sessionCookieValue.truthy
  \/ u.sessionCookieValue.t # "string"
  \/ u.userAgent.t \notin {"undefined", "string"}
  \/ u.keepAlive.t \notin {"undefined", "boolean"}
  \/ u.timeout.t \notin {"undefined", "number"}
  \/ u.headless.t \notin {"undefined", "boolean"}

\* C3: a constructor call with a wrongly typed option throws: the scraper is
\* not constructed, so no browser is launched and no call is made on it.
C3_WrongOptionsRejected ==
  (scraper # "unconstructed" /\ WronglyTyped(givenOptions))
    => /\ scraper = "failed"
       /\ browser = NoBrowser
       /\ pagesOf = <<>>
       /\ \A c \in Callers : call[c] = NoCall

\* C4: when a section of a run fails, the run throws that error and returns
\* no result, and no section after the failing one is navigated: the
\* navigations of the run are the sections up to the failing one, in order.
C4_FailedRunReturnsNothing ==
  \A c \in Callers :
    (PastValidation(c) /\ call[c].error # "")
      => /\ call[c].pc = "idle"
         /\ call[c].outcome = "threw"
         /\ call[c].result = NoResult
         /\ Len(call[c].navs) \in {call[c].sec - 1, call[c].sec}
         /\ \A i \in DOMAIN call[c].navs : call[c].navs[i] = i

\* C4's case: a run failed at the posts section, after earlier sections gave
\* their data.
C4_Witness ==
  \E c \in Callers :
    /\ RunEnded(c)
    /\ call[c].error = "ExtractionError"
    /\ Sections[call[c].sec] = "posts"
    /\ "experiences" \in call[c].locals

\* C10: when checkIfLoggedIn has ended, the browser reference is the one
\* before the call and every page that was open before the call is open.
C10_CheckLeavesPagesOpen ==
  \A c \in Callers :
    (call[c].op = "checkIfLoggedIn" /\ call[c].pc = "idle")
      => /\ browser = call[c].pre.browser
         /\ \A b \in DOMAIN call[c].pre.open :
              Range(call[c].pre.open[b]) \subseteq Range(pagesOf[b])

(***************************************************************************)
(* Properties of the decoder and of the watermark filter                   *)
(***************************************************************************)

\* The exact integer of an item's identifier, and whether the item has one.
Resolved(id) == id.t = "string"

ExactlyGreater(id, w) == Resolved(id) /\ DecGreater(id.v, w.v)

\* The items of the last feed call before the filter, their identifiers, and
\* the watermark of the call.
FeedRaw ==
  IF feedCall.op = "getPosts" THEN rawUserPostData(feedCall.posts)
  ELSE rawComment(feedCall.comments, ProfileOwner)

FeedId(item) == IF feedCall.op = "getPosts" THEN item.postId ELSE item.commentId

FeedWatermark ==
  IF feedCall.op = "getPosts" THEN lastPostIDOf(feedCall.memory)
  ELSE lastCommentIDOf(feedCall.memory)

Kept(item) == \E k \in DOMAIN feedCall.out : feedCall.out[k] = item

\* C5: the filter returns exactly the items whose identifier is greater than
\* the watermark, in their order, and filtering its result again with the
\* same watermark returns the same items.
C5_FilterExactAndIdempotent ==
  feedCall.op # "none"
    => /\ feedCall.out =
            SelectSeq(FeedRaw, LAMBDA item : ExactlyGreater(FeedId(item), FeedWatermark))
       /\ feedCall.out =
            SelectSeq(feedCall.out,
                      LAMBDA item : ExactlyGreater(FeedId(item), FeedWatermark))

\* C6: an item is kept if and only if its exact integer identifier is greater
\* than the exact integer watermark.
C6_ComparisonExact ==
  feedCall.op # "none"
    => \A i \in DOMAIN FeedRaw :
         Resolved(FeedId(FeedRaw[i]))
           => (Kept(FeedRaw[i]) <=> DecGreater(FeedId(FeedRaw[i]).v, FeedWatermark.v))

\* The comments of the profile owner on a page, by their distinct elements.
OwnerComments(comments) ==
  {i \in DOMAIN comments : comments[i].author = ProfileOwner}

\* C7: with a watermark of zero or none, every post element and every comment
\* of the profile owner on the page is in the result.
C7_ZeroWatermarkKeepsAll ==
  (feedCall.op # "none" /\ FeedWatermark = Num(<<0>>))
    => IF feedCall.op = "getPosts"
         THEN Len(feedCall.out) = Len(feedCall.posts)
         ELSE Len(feedCall.out) = Cardinality(OwnerComments(feedCall.comments))

\* The number of binary digits of an identifier.
BitLength(id) == Len(BigIntToString2(id))

\* C8: the timestamp of an identifier x with n binary digits is
\* floor(x / 2^(n - 41)) when n > 41, and x when n <= 41.
C8_TimestampIsLeading41Bits ==
  \A i \in DOMAIN dateCalls :
    LET x == dateCalls[i].postId
        n == BitLength(x)
    IN  dateCalls[i].date.unixTimestamp =
          (IF n > 41 THEN DecShiftRight(x, n - 41) ELSE x)

\* C8's case: getDate was called with an identifier of more than 41 binary
\* digits whose low digits are not all zero.
C8_Witness ==
  \E i \in DOMAIN dateCalls :
    /\ BitLength(dateCalls[i].postId) > 41
    /\ dateCalls[i].postId = DecMulAdd(ActivityA, 1, 1)
    /\ dateCalls[i].date.unixTimestamp # dateCalls[i].postId

CheckEnded(c) == call[c].op = "checkIfLoggedIn" /\ call[c].pc = "idle"

\* C11: a checkIfLoggedIn call that has ended threw SessionExpired exactly
\* when it navigated to the login page and the URL of the page then ended
\* with /login; when the URL was another one it returned without error; in
\* both cases the page it opened is closed, and it navigated once.
C11_SessionExpiredIffStillOnLogin ==
  \A c \in Callers :
    CheckEnded(c) =>
      LET navigated == call[c].navs # <<>>
          onLogin   == call[c].url # <<>> /\ call[c].url[Len(call[c].url)] = "/login"
      IN  /\ (call[c].outcome = "threw" /\ call[c].error = "SessionExpired")
                <=> (navigated /\ onLogin)
          /\ (navigated /\ ~onLogin) => (call[c].outcome = "returned" /\ call[c].error = "")
          /\ navigated => (call[c].cur # NoPage /\ ~IsOpen(call[c].cur))
          /\ Len(call[c].navs) <= 1

\* C11's case: a check that navigated, stayed on the login page, closed
\* its page and threw SessionExpired.
C11_Witness ==
  \E c \in Callers :
    /\ CheckEnded(c)
    /\ call[c].error = "SessionExpired"
    /\ call[c].url = <<"https://", "www.", "linkedin.com", "/login">>
    /\ ~IsOpen(call[c].cur)


\* The order of the sections of a run.
FixedOrder ==
  <<"profile", "experiences", "skills", "volunteerings", "honors", "posts", "comments">>

\* C12: the navigations of a run are a prefix of the fixed order (profile,
\* experiences, skills, volunteerings, honors, posts, comments), one section
\* at a time: every section navigated before the latest one has given its
\* data, and while a section is being navigated every section before it has.
C12_SectionsInFixedOrder ==
  \A c \in Callers :
    call[c].op = "run" =>
      LET rec == call[c]
      IN  /\ Len(rec.navs) <= Len(FixedOrder)
          /\ \A i \in DOMAIN rec.navs : Sections[rec.navs[i]] = FixedOrder[i]
          /\ \A i \in 1..(Len(rec.navs) - 1) : localsOf(FixedOrder[i]) \subseteq rec.locals
          /\ rec.pc \in {"newPage", "closeFirst", "configure", "goto"}
               => /\ Len(rec.navs) = rec.sec - 1
                  /\ \A i \in 1..(rec.sec - 1) : localsOf(FixedOrder[i]) \subseteq rec.locals
          /\ rec.pc = "evaluate" => Len(rec.navs) = rec.sec

\* C12's case: a run that has navigated all seven sections and returned.
C12_Witness ==
  \E c \in Callers :
    /\ RunEnded(c)
    /\ call[c].outcome = "returned"
    /\ Len(call[c].navs) = 7


\* C13: the object a run returns has the output of every section the run
\* extracted: the profile, the experiences, education, license, language,
\* skills, volunteerings and honors, and the filtered posts and comments.
C13_ResultHasEverySection ==
  \A c \in Callers :
    (RunEnded(c) /\ call[c].outcome = "returned")
      => /\ call[c].locals \subseteq call[c].result.keys
         /\ {"userProfile", "experiences", "education", "license", "language", "skills",
             "volunteerings", "honors", "posts", "comments"} \subseteq call[c].result.keys
         /\ call[c].result.posts = call[c].posts
         /\ call[c].result.comments = call[c].comments


(***************************************************************************)
(* Properties of the browser and of its release                            *)
(***************************************************************************)

\* The launched browsers that no browser.close() has closed.
AliveBrowsers == DOMAIN pagesOf \ closedBrowsers

\* C14: at most one launched browser is alive, and every browser that setup
\* launched is the one the scraper refers to or has been closed.
C14_OneBrowserAlive ==
  /\ Cardinality(AliveBrowsers) <= 1
  /\ \A b \in AliveBrowsers : b = browser

\* C15: when a run has failed after its input validation, its error has
\* reached the caller; with keepAlive set the page of the failing step is
\* closed and the browser is not, and with keepAlive not set the browser is
\* closed.
C15_FailedRunReleasesByKeepAlive ==
  \A c \in Callers :
    (RunEnded(c) /\ PastValidation(c) /\ call[c].error # "")
      => /\ call[c].outcome = "threw"
         /\ options.keepAlive.truthy
              => /\ call[c].cur # NoPage => ~IsOpen(call[c].cur)
                 /\ call[c].pre.browser \notin closedBrowsers
         /\ ~options.keepAlive.truthy => call[c].pre.browser \in closedBrowsers

\* C16: when close(page) has resolved, the page it was given is closed and
\* the browser of the scraper is closed.
C16_CloseReleasesPageThenBrowser ==
  \A c \in Callers :
    (call[c].op = "close" /\ call[c].pc = "idle" /\ call[c].outcome = "returned")
      => /\ call[c].page # NoPage => ~IsOpen(call[c].page)
         /\ call[c].pre.browser # NoBrowser => call[c].pre.browser \in closedBrowsers


\* A run that has passed its checks and has not ended.
RunInProgress(c) == call[c].op = "run" /\ call[c].pc # "idle"

\* C17: no two runs on the scraper are in progress together, and the page a
\* run is navigating or reading is open.
C17_RunsDoNotInterleave ==
  /\ \A c, d \in Callers : (c # d /\ RunInProgress(c)) => ~RunInProgress(d)
  /\ \A c \in Callers :
       (RunInProgress(c) /\ call[c].pc \in {"goto", "evaluate"}) => IsOpen(call[c].cur)


(***************************************************************************)
(* Properties of the list sections                                         *)
(***************************************************************************)

\* The fields of the record of a section.
ShapeOf(section) ==
  IF section = "honors" THEN {"title", "company", "date", "description"}
  ELSE {"title", "company", "startDate", "endDate", "description"}

\* The items of the page whose first line has not the empty-state marker.
Entries == SelectSeq(feedCall.items, LAMBDA item : ~(\E i \in DOMAIN item[1] : item[1][i] = "Nothing to see"))

\* C19: an extraction of the experiences, volunteerings or honors does not
\* throw, whatever lines its items have, and every record it yields has every
\* field of its shape, holding a string or null.
C19_MissingDataNeverThrows ==
  feedCall.op \in ListSections
    => /\ ~feedCall.threw
       /\ \A i \in DOMAIN feedCall.out :
            /\ DOMAIN feedCall.out[i] = ShapeOf(feedCall.op)
            /\ \A f \in DOMAIN feedCall.out[i] : feedCall.out[i][f].t \in {"string", "null"}

\* C20: an extraction of the experiences, volunteerings or honors yields one
\* record for each item whose first line has not the empty-state marker, in
\* document order, and none for an item that has it.
C20_OneRecordPerEntry ==
  feedCall.op \in ListSections
    => /\ ~feedCall.threw
       /\ Len(feedCall.out) = Len(Entries)
       /\ \A i \in DOMAIN feedCall.out : feedCall.out[i].title = Str(Entries[i][1])


(***************************************************************************)
(* A profile without feed items                                            *)
(***************************************************************************)

C21_OnePageAfterCreatePage ==
  \A c \in Callers :
    /\ call[c].pc = "goto" => (browser # NoBrowser /\ pagesOf[browser] = <<call[c].cur>>)
    /\ call[c].pc = "configure" => IsOpen(call[c].cur)


\* The pages open now that were not open when the call began.
OpenedSince(c) ==
  OpenPages \ UNION {Range(call[c].pre.open[b]) : b \in DOMAIN call[c].pre.open}

\* C23: in a run with keepAlive set, the page run closes at its end is open
\* when run closes it; the run that has extracted every section returns, and
\* then no page opened during it is open.
C23_KeepAliveRunClosesItsPages ==
  \A c \in Callers :
    (call[c].op = "run" /\ options.keepAlive.truthy)
      => /\ call[c].pc = "release" => IsOpen(call[c].page)
         /\ (RunEnded(c) /\ "comments" \in call[c].locals)
              => (call[c].outcome = "returned" /\ OpenedSince(c) = {})


(***************************************************************************)
(* Properties of autoScroll                                                *)
(***************************************************************************)

\* While the loop polls, the latest poll had not scrolled to the height it
\* read; once resolved, the latest poll had; the polls are ScrollInterval
\* apart and each scrolls by distance; the promise is pending or resolved.
ScrollResolvesAtFirstReach ==
  scroll.promise # "none"
    => /\ scroll.promise \in {"pending", "resolved"}
       /\ scroll.totalHeight = distance * scroll.polls
       /\ scroll.time = ScrollInterval * scroll.polls
       /\ (scroll.promise = "pending" /\ scroll.polls > 0)
            => scroll.totalHeight < scroll.scrollHeight
       /\ scroll.promise = "resolved"
            => (scroll.polls > 0 /\ scroll.totalHeight >= scroll.scrollHeight)

\* A poll after the first that reads a height grown by distance or more
\* since the poll before does not resolve.
ScrollGoesOnWhilePageGrows ==
  (/\ scroll.promise = "pending"
   /\ scroll.polls > 0
   /\ scroll'.polls = scroll.polls + 1
   /\ scroll'.scrollHeight >= scroll.scrollHeight + distance)
    => scroll'.promise = "pending"

\* C22: autoScroll polls every ScrollInterval; it resolves at the first poll
\* whose accumulated distance has reached the height the poll reads, and
\* never rejects; it goes on while the page grows by the step or more per
\* poll; and on a page that stops growing it resolves in the end.
C22_AutoScrollResolves ==
  /\ []ScrollResolvesAtFirstReach
  /\ [][ScrollGoesOnWhilePageGrows]_vars
  /\ (scroll.promise = "pending") ~> (scroll.promise = "resolved")

\* C22's case: the loop has resolved after the page grew while it polled.
C22_Witness ==
  /\ scroll.promise = "resolved"
  /\ scroll.polls >= 3
  /\ scroll.growths >= 2

====
